---- MODULE Spec2Model ----
(***************************************************************************)
(* Weather-station microservice (deivdf/backend-app): the record store of *)
(* app/models.py and the request handlers of app/routers/webhook.py.      *)
(*                                                                         *)
(* Conventions of the model                                                *)
(*   - an Optional[float] column is None == <<>> or Some(v) == <<v>>;      *)
(*   - a measurement is an integer number of tenths of its unit (25.5 C is *)
(*     255), a statistic an integer number of hundredths; timestamps are   *)
(*     integer hours;                                                      *)
(*   - the table weather_station_data is the function store: id -> row;    *)
(*     it lives in PostgreSQL and outlives the process, so a behaviour     *)
(*     starts from a table that may already hold rows (main.py:12 only     *)
(*     creates the table when it is missing).                              *)
(***************************************************************************)
EXTENDS Integers, Sequences, FiniteSets, TLC

VARIABLES
    store,      \* the table: [set of ids -> row]
    removed,    \* history: ids whose delete was acknowledged
    nextId,     \* next value of the id sequence (autoincrement)
    now,        \* the clock read by utcnow() and by the database's now()
    request,    \* the parameters of the read request being polled
    resp,       \* the response of the last handler that returned
    sess        \* the two concurrent sessions of the mark/delete race, and
                \* (history) the ids stored when the two requests arrived

vars == <<store, removed, nextId, now, request, resp, sess>>

\* ------------------------------------------------------------------ bounds
MaxRows == 2        \* rows in the table at start
MaxViewRows == 3    \* the same, where only read views and their inputs vary
MaxNow == 2         \* last tick of the clock

\* ------------------------------------------------------------ helper values
None == <<>>
Some(v) == <<v>>
Val(x) == x[1]

Sources == {"s1", "s2"}
Ids == 1..(MaxRows + 1)
ViewIds == 1..(MaxViewRows + 1)

\* the elements of a sequence
Range(q) == {q[a] : a \in DOMAIN q}

MaxOf(S) == CHOOSE m \in S : \A x \in S : x <= m
MinOf(S) == CHOOSE m \in S : \A x \in S : m <= x

RECURSIVE SumOver(_, _)
\* sum of f[x] over the finite set S
SumOver(f, S) ==
    IF S = {} THEN 0
    ELSE LET x == CHOOSE y \in S : TRUE IN f[x] + SumOver(f, S \ {x})

\* ------------------------------------------------------------- models.py
\* class WeatherStationData: the columns of the table
WeatherStationDataColumns ==
    {"id", "station_time", "source", "temperature", "precipitation",
     "real_precipitation", "presure", "wind_speed", "wind_direction",
     "humidity", "radiation", "eto", "compass_rose", "real_eto",
     "radiation_uv", "processed", "created_at", "updated_at"}

\* class DataReceived: the attributes of a validated payload
DataReceivedFields ==
    {"stationTime", "temperature", "precipitation", "realPrecipitation",
     "presure", "windSpeed", "windDirection", "humidity", "radiation", "eto",
     "compassRose", "realETO", "radiationUV", "source"}

\* class WeatherDataOut: the projection returned by GET /data/{id}
WeatherDataOutFields ==
    {"id", "station_time", "source", "temperature", "precipitation",
     "real_precipitation", "presure", "wind_speed", "wind_direction",
     "humidity", "radiation", "eto", "compass_rose", "real_eto",
     "radiation_uv", "processed", "created_at"}

\* a row of the table (the id is the key of store)
Row(t, s, temp, hum, wind, pres, rp, proc, upd) ==
    [station_time |-> t, source |-> s, temperature |-> temp,
     precipitation |-> None, real_precipitation |-> rp, presure |-> pres,
     wind_speed |-> wind, wind_direction |-> None, humidity |-> hum,
     radiation |-> None, eto |-> None, compass_rose |-> None,
     real_eto |-> None, radiation_uv |-> None, processed |-> proc,
     created_at |-> 0, updated_at |-> upd]

\* the row of id with its key, as the ORM object carries it
WithId(id, row) == [c \in DOMAIN row \cup {"id"} |-> IF c = "id" THEN id ELSE row[c]]

\* --------------------------------------------------- POST /webhook (20-66)
\* The keyword arguments of the WeatherStationData(...) call, in call order:
\* <<column keyword, attribute read from data>>.
ConstructorArgs ==
    << <<"station_time", "stationTime">>, <<"source", "source">>,
       <<"temperature", "temperature">>, <<"precipitation", "precipitation">>,
       <<"real_precipitation", "realPrecipitation">>, <<"presure", "presure">>,
       <<"wind_speed", "windSpeed">>, <<"wind_direction", "windDirection">>,
       <<"humidity", "humidity">>, <<"radiation", "radiation">>,
       <<"eto", "eto">>, <<"compass_rose", "compassRose">>,
       <<"real_eto", "realETO">>, <<"radiation_uv", "radiationUV">>,
       <<"active_sensor", "activeSensor">>, <<"solar_panel", "solarPanel">>,
       <<"open_door", "openDoor">>, <<"low_battery", "lowBattery">>,
       <<"observations", "observations">> >>

\* Column defaults applied by the INSERT (models.py:32-36).
ColumnDefault(c) ==
    IF c = "processed" THEN 0
    ELSE IF c = "created_at" THEN now
    ELSE None

\* Lines 27-47: evaluating the arguments reads each attribute of data; an
\* attribute DataReceived does not declare raises AttributeError, and a keyword
\* that is no column of WeatherStationData raises TypeError in the constructor.
BuildDbData(data) ==
    LET n == Len(ConstructorArgs)
        unreadable == {i \in 1..n : ConstructorArgs[i][2] \notin DOMAIN data}
        unknownKw == {i \in 1..n : ConstructorArgs[i][1] \notin WeatherStationDataColumns}
        given == {ConstructorArgs[i][1] : i \in 1..n}
        attrOf(c) == ConstructorArgs[CHOOSE i \in 1..n : ConstructorArgs[i][1] = c][2]
    IN  IF unreadable # {}
        THEN [ok |-> FALSE, error |-> "AttributeError", at |-> ConstructorArgs[MinOf(unreadable)][2]]
        ELSE IF unknownKw # {}
        THEN [ok |-> FALSE, error |-> "TypeError", at |-> ConstructorArgs[MinOf(unknownKw)][1]]
        ELSE [ok |-> TRUE,
              row |-> [c \in WeatherStationDataColumns \ {"id"} |->
                          IF c \in given THEN data[attrOf(c)] ELSE ColumnDefault(c)]]

\* Where the store may fail inside the try block (lines 49-51).
StoreFaults == {"none", "add", "commit", "refresh"}

\* a validated payload: stationTime and source given, the rest defaulting to None
Payload(t, s, temp, hum) ==
    [stationTime |-> t, source |-> s, temperature |-> temp, humidity |-> hum,
     precipitation |-> None, realPrecipitation |-> None, presure |-> None,
     windSpeed |-> None, windDirection |-> None, radiation |-> None,
     eto |-> None, compassRose |-> None, realETO |-> None, radiationUV |-> None]

Payloads == {Payload(1, "s1", None, None), Payload(2, "s2", Some(255), Some(600))}

\* fault: the call of lines 49-51 at which the store would fail, if reached.
\* ConstructorArgs names attributes DataReceivedFields lacks, so BuildDbData
\* fails for every payload and the handler always leaves through the except
\* branch of lines 63-66; the other branches are what lines 49-61 would do.
receive_weather_data(data, fault) ==
    LET built == BuildDbData(data) IN
    /\ IF ~built.ok
       THEN \* except: db.rollback() with nothing pending, then HTTP 500
            /\ resp' = [op |-> "ingest", given |-> data, status |-> 500,
                        success |-> FALSE, error |-> built.error, at |-> built.at]
            /\ UNCHANGED <<store, nextId>>
       ELSE IF fault = "none"
       THEN /\ store' = (nextId :> built.row) @@ store
            /\ nextId' = nextId + 1
            /\ resp' = [op |-> "ingest", given |-> data, status |-> 200,
                        success |-> TRUE, id |-> nextId]
       ELSE IF fault = "refresh"
       THEN \* the commit is done; rollback() cannot take it back
            /\ store' = (nextId :> built.row) @@ store
            /\ nextId' = nextId + 1
            /\ resp' = [op |-> "ingest", given |-> data, status |-> 500,
                        success |-> FALSE, error |-> "StoreError", at |-> fault]
       ELSE /\ resp' = [op |-> "ingest", given |-> data, status |-> 500,
                        success |-> FALSE, error |-> "StoreError", at |-> fault]
            /\ nextId' \in {nextId, nextId + 1}
            /\ UNCHANGED store
    /\ UNCHANGED <<removed, now, request, sess>>

\* ------------------------------------------- GET /data/{data_id} (107-119)
get_weather_data_by_id(data_id) ==
    /\ resp' = IF data_id \in DOMAIN store
               THEN [op |-> "getById", id |-> data_id, status |-> 200,
                     body |-> [c \in WeatherDataOutFields |-> WithId(data_id, store[data_id])[c]]]
               ELSE [op |-> "getById", id |-> data_id, status |-> 404]
    /\ UNCHANGED <<store, removed, nextId, now, request, sess>>

\* ---------------------------- PUT /data/{data_id}/mark-processed (305-318)
\* Mutant: the flag is flipped instead of set.
FlushProcessed_toggle(row) ==
    [row EXCEPT !.processed = 1 - row.processed, !.updated_at = Some(now)]

\* Mutant: the flag is used as a counter.
FlushProcessed_counts(row) ==
    [row EXCEPT !.processed = row.processed + 1, !.updated_at = Some(now)]

\* The unit of work flushes an UPDATE only for an attribute whose value
\* changed; the UPDATE stamps updated_at (models.py:36, onupdate).
FlushProcessed(row) ==
    IF row.processed = 1 THEN row
    ELSE [row EXCEPT !.processed = 1, !.updated_at = Some(now)]

\* resp.again (history): the handler that returned just before was a successful
\* mark-processed of the same id.
mark_as_processed(data_id) ==
    /\ IF data_id \notin DOMAIN store
       THEN /\ resp' = [op |-> "mark", id |-> data_id, status |-> 404, again |-> FALSE]
            /\ UNCHANGED store
       ELSE /\ store' = [store EXCEPT ![data_id] = FlushProcessed(store[data_id])]
            /\ resp' = [op |-> "mark", id |-> data_id, status |-> 200,
                        again |-> (resp.op = "mark" /\ resp.id = data_id /\ resp.status = 200)]
    /\ UNCHANGED <<removed, nextId, now, request, sess>>

\* ---------------------------------------- DELETE /data/{data_id} (321-334)
\* Mutant: the DELETE is never committed.
DeleteRow_uncommitted(s, data_id) == s

DeleteRow(s, data_id) == [i \in DOMAIN s \ {data_id} |-> s[i]]

delete_weather_data(data_id) ==
    /\ IF data_id \notin DOMAIN store
       THEN /\ resp' = [op |-> "delete", id |-> data_id, status |-> 404]
            /\ UNCHANGED <<store, removed>>
       ELSE /\ store' = DeleteRow(store, data_id)
            /\ removed' = removed \cup {data_id}
            /\ resp' = [op |-> "delete", id |-> data_id, status |-> 200]
    /\ UNCHANGED <<nextId, now, request, sess>>

\* --------------------------------------------- GET /data/latest/all (148-169)
\* Mutant: the newest row of a source is taken by observation time.
MaxIdBySource_byTime(s) ==
    LET present == {s[i].source : i \in DOMAIN s}
    IN  [src \in present |->
            CHOOSE i \in DOMAIN s :
                /\ s[i].source = src
                /\ \A j \in DOMAIN s : s[j].source = src =>
                        \/ s[j].station_time < s[i].station_time
                        \/ (s[j].station_time = s[i].station_time /\ j <= i)]

\* subquery: SELECT source, max(id) AS max_id ... GROUP BY source
MaxIdBySource(s) ==
    LET present == {s[i].source : i \in DOMAIN s}
    IN  [src \in present |-> MaxOf({i \in DOMAIN s : s[i].source = src})]

\* join on id = max_id; the rows come back in no stated order
LatestIds(s) ==
    LET sub == MaxIdBySource(s)
    IN  {i \in DOMAIN s : \E src \in DOMAIN sub : i = sub[src]}

get_latest_from_all_sources ==
    /\ resp' = [op |-> "latest", ids |-> LatestIds(store)]
    /\ UNCHANGED <<store, removed, nextId, now, request, sess>>

\* ------------------------------------------------------------------ clock
Tick ==
    /\ now < MaxNow
    /\ now' = now + 1
    /\ UNCHANGED <<store, removed, nextId, request, resp, sess>>

\* ------------------------------------------------------- the table at start
\* Every table with rows 1..n, n <= max, drawn from rows.
TablesUpTo(rows, max) == UNION {[1..n -> rows] : n \in 0..max}

NoRequest == [op |-> "none"]
NoResp == [op |-> "none"]
NoSess == [mark |-> [pc |-> "off"], del |-> [pc |-> "off"], existing |-> {}]

\* ------------------------------------------------ ingest, lookup, mutation
\* rows that differ in what the mutating handlers read and write
MutRows ==
    {Row(1, s, None, None, None, None, None, p, IF p = 1 THEN Some(0) ELSE None) :
        s \in Sources, p \in {0, 1}}

Init ==
    /\ store \in TablesUpTo(MutRows, MaxRows)
    /\ removed = {}
    /\ nextId = Cardinality(DOMAIN store) + 1
    /\ now = 1
    /\ request = NoRequest
    /\ resp = NoResp
    /\ sess = NoSess

Next ==
    \/ \E data \in Payloads, fault \in StoreFaults : receive_weather_data(data, fault)
    \/ \E id \in Ids : get_weather_data_by_id(id)
    \/ \E id \in Ids : mark_as_processed(id)
    \/ \E id \in Ids : delete_weather_data(id)
    \/ Tick

Spec == Init /\ [][Next]_vars

\* --------------------------------------------------------- latest per source
\* rows that differ in arrival order, observation time and source
LatestRows ==
    {Row(t, s, None, None, None, None, None, p, IF p = 1 THEN Some(0) ELSE None) :
        t \in 1..2, s \in Sources, p \in {0, 1}}

InitLatest ==
    /\ store \in TablesUpTo(LatestRows, MaxViewRows)
    /\ removed = {}
    /\ nextId = Cardinality(DOMAIN store) + 1
    /\ now = 1
    /\ request = NoRequest
    /\ resp = NoResp
    /\ sess = NoSess

NextLatest ==
    \/ \E data \in Payloads, fault \in StoreFaults : receive_weather_data(data, fault)
    \/ \E id \in ViewIds : mark_as_processed(id)
    \/ \E id \in ViewIds : delete_weather_data(id)
    \/ get_latest_from_all_sources

SpecLatest == InitLatest /\ [][NextLatest]_vars

\* ------------------------------------------------------ GET /data (69-104)
MinLimit == 1
MaxLimit == 1000

\* Python truth of an Optional[str] query parameter: None and "" are false.
StrTruthy(x) == x # None /\ Val(x) # ""

\* Python truth of an Optional[datetime]: every datetime is true.
DateTruthy(x) == x # None

\* Mutant: the lower time bound is exclusive.
ListFilter_exclusive(s, source, start_date, end_date) ==
    {i \in DOMAIN s :
        /\ StrTruthy(source) => s[i].source = Val(source)
        /\ DateTruthy(start_date) => s[i].station_time > Val(start_date)
        /\ DateTruthy(end_date) => s[i].station_time <= Val(end_date)}

\* lines 86-95: the filters that are added to the query
ListFilter(s, source, start_date, end_date) ==
    {i \in DOMAIN s :
        /\ StrTruthy(source) => s[i].source = Val(source)
        /\ DateTruthy(start_date) => s[i].station_time >= Val(start_date)
        /\ DateTruthy(end_date) => s[i].station_time <= Val(end_date)}

\* the sequences that hold each element of S once
Orderings(S) ==
    {q \in [1..Cardinality(S) -> S] : \A a, b \in DOMAIN q : a # b => q[a] # q[b]}

\* line 98: ORDER BY station_time DESC; rows of equal station_time come in an
\* order SQL does not fix, so every such order is a possible result.
OrderByTimeDesc(s, S) ==
    {q \in Orderings(S) :
        \A a, b \in DOMAIN q : a < b => s[q[a]].station_time >= s[q[b]].station_time}

\* lines 99-100: OFFSET skip LIMIT limit
OffsetLimit(q, skip, limit) ==
    SubSeq(q, skip + 1, IF skip + limit < Len(q) THEN skip + limit ELSE Len(q))

\* resp.rows: the ids of the returned rows, in order
get_all_weather_data ==
    /\ request.op = "list"
    /\ \E q \in OrderByTimeDesc(store,
                    ListFilter(store, request.source, request.start_date, request.end_date)) :
          resp' = [op |-> "list", rows |-> OffsetLimit(q, request.skip, request.limit)]
    /\ UNCHANGED <<store, removed, nextId, now, request, sess>>

Times == 1..3

ListRows ==
    {Row(t, s, None, None, None, None, None, 0, None) : t \in Times, s \in Sources}

ListRequests ==
    [op : {"list"},
     skip : {0, 1, MaxViewRows},
     limit : {MinLimit, 2, MaxLimit},
     source : {None, Some(""), Some("s1"), Some("s2")},
     start_date : {None, Some(2), Some(3)},
     end_date : {None, Some(1), Some(2)}]

InitList ==
    /\ store \in TablesUpTo(ListRows, MaxViewRows)
    /\ removed = {}
    /\ nextId = Cardinality(DOMAIN store) + 1
    /\ now = 1
    /\ request \in ListRequests
    /\ resp = NoResp
    /\ sess = NoSess

NextList == get_all_weather_data

SpecList == InitList /\ [][NextList]_vars

\* ---------------------------------------- windowed reads (183-198, 246-256)
\* timedelta(hours=hours) back from utcnow()
TimeThreshold(hours) == now - hours

\* filter(source == source_name, station_time >= time_threshold)
WindowIds(s, source_name, time_threshold) ==
    {i \in DOMAIN s : s[i].source = source_name /\ s[i].station_time >= time_threshold}

\* the integer nearest to n/d (d > 0), a tie going to the even one
RoundHalfEven(n, d) ==
    LET q == n \div d
        r == n % d
    IN  IF 2 * r < d THEN q
        ELSE IF 2 * r > d THEN q + 1
        ELSE IF q % 2 = 0 THEN q ELSE q + 1

\* ----------------------- GET /statistics/source/{source_name} (172-230)
\* the non-NULL values of a column over the rows W, as [id -> value]
NonNull(s, W, col) == [i \in {j \in W : s[j][col] # None} |-> Val(s[i][col])]

\* SQL avg(col): NULL over no value, else the quotient, kept as sum and count
SqlAvg(s, W, col) ==
    LET v == NonNull(s, W, col)
    IN  IF DOMAIN v = {} THEN None
        ELSE Some([sum |-> SumOver(v, DOMAIN v), count |-> Cardinality(DOMAIN v)])

\* SQL max(col) and min(col): NULL over no value
SqlMax(s, W, col) ==
    LET v == NonNull(s, W, col)
    IN  IF DOMAIN v = {} THEN None ELSE Some(MaxOf({v[i] : i \in DOMAIN v}))

SqlMin(s, W, col) ==
    LET v == NonNull(s, W, col)
    IN  IF DOMAIN v = {} THEN None ELSE Some(MinOf({v[i] : i \in DOMAIN v}))

\* "round(x, 2) if x else None" on an average: Python takes None and 0.0 for
\* false. The result is in hundredths.
ReportAvg(a) ==
    IF a = None \/ Val(a).sum = 0 THEN None
    ELSE Some(RoundHalfEven(10 * Val(a).sum, Val(a).count))

\* "round(x, 2) if x else None" on a maximum or minimum
ReportValue(x) ==
    IF x = None \/ Val(x) = 0 THEN None ELSE Some(10 * Val(x))

get_statistics_by_source ==
    /\ request.op = "stats"
    /\ LET W == WindowIds(store, request.source_name, TimeThreshold(request.hours))
       IN  resp' =
             IF Cardinality(W) = 0
             THEN [op |-> "stats", status |-> 404]
             ELSE [op |-> "stats", status |-> 200,
                   temperature |->
                       [average |-> ReportAvg(SqlAvg(store, W, "temperature")),
                        maximum |-> ReportValue(SqlMax(store, W, "temperature")),
                        minimum |-> ReportValue(SqlMin(store, W, "temperature"))],
                   humidity |-> [average |-> ReportAvg(SqlAvg(store, W, "humidity"))],
                   wind_speed |->
                       [average |-> ReportAvg(SqlAvg(store, W, "wind_speed")),
                        maximum |-> ReportValue(SqlMax(store, W, "wind_speed"))],
                   total_records |-> Cardinality(W)]
    /\ UNCHANGED <<store, removed, nextId, now, request, sess>>

ReadingTimes == {1, 2}

StatRows ==
    {Row(t, s, temp, hum, wind, None, None, 0, None) :
        t \in ReadingTimes, s \in Sources,
        temp \in {None, Some(-255), Some(0), Some(255)},
        hum \in {None, Some(600)},
        wind \in {None, Some(102)}}

StatRequests == [op : {"stats"}, source_name : Sources, hours : {1, 2}]

InitStats ==
    /\ store \in TablesUpTo(StatRows, MaxRows)
    /\ removed = {}
    /\ nextId = Cardinality(DOMAIN store) + 1
    /\ now = MaxNow + 1
    /\ request \in StatRequests
    /\ resp = NoResp
    /\ sess = NoSess

NextStats == get_statistics_by_source

SpecStats == InitStats /\ [][NextStats]_vars

\* ------------------ GET /predict/rain_probability/{source_name} (233-302)
\* order_by(station_time.asc()): rows of equal station_time in any order
OrderByTimeAsc(s, S) ==
    {q \in Orderings(S) :
        \A a, b \in DOMAIN q : a < b => s[q[a]].station_time <= s[q[b]].station_time}

\* Mutant: the upper humidity threshold is inclusive.
HumidityScore_inclusive(s, recent) ==
    LET v == NonNull(s, Range(recent), "humidity")
        total == SumOver(v, DOMAIN v)
        n == Cardinality(DOMAIN v)
    IN  IF n = 0 THEN 0
        ELSE IF total >= 900 * n THEN 30
        ELSE IF total > 750 * n THEN 15
        ELSE 0

\* lines 267-273: avg_humidity > 90 adds 30, else > 75 adds 15; with no
\* humidity at all the average is taken to be 0
HumidityScore(s, recent) ==
    LET v == NonNull(s, Range(recent), "humidity")
        total == SumOver(v, DOMAIN v)
        n == Cardinality(DOMAIN v)
    IN  IF n = 0 THEN 0
        ELSE IF total > 900 * n THEN 30
        ELSE IF total > 750 * n THEN 15
        ELSE 0

\* line 268 and 298: round(avg_humidity, 2), in hundredths
AverageHumidity(s, recent) ==
    LET v == NonNull(s, Range(recent), "humidity")
    IN  IF DOMAIN v = {} THEN 0
        ELSE RoundHalfEven(10 * SumOver(v, DOMAIN v), Cardinality(DOMAIN v))

\* lines 265, 275-278: last minus first pressure when both are there, else 0.0
PressureChange(s, recent) ==
    LET first_pressure == s[recent[1]].presure
        last_pressure == s[recent[Len(recent)]].presure
    IN  IF first_pressure # None /\ last_pressure # None
        THEN Val(last_pressure) - Val(first_pressure)
        ELSE 0

\* lines 277-282
PressureScore(s, recent) ==
    LET first_pressure == s[recent[1]].presure
        last_pressure == s[recent[Len(recent)]].presure
    IN  IF first_pressure # None /\ last_pressure # None
        THEN IF PressureChange(s, recent) < -15 THEN 35
             ELSE IF PressureChange(s, recent) < -5 THEN 15
             ELSE 0
        ELSE 0

\* lines 284-286
TotalPrecipitation(s, recent) ==
    LET v == NonNull(s, Range(recent), "real_precipitation")
    IN  SumOver(v, DOMAIN v)

\* lines 287-288
PrecipitationScore(s, recent) ==
    IF TotalPrecipitation(s, recent) > 1 THEN 25 ELSE 0

\* line 290
FinalProbability(probability) == IF probability < 100 THEN probability ELSE 100

\* resp.recent (history): the ordered window the handler worked on
get_rain_probability ==
    /\ request.op = "rain"
    /\ \E recent \in OrderByTimeAsc(store,
                        WindowIds(store, request.source_name, TimeThreshold(request.hours))) :
          resp' =
            IF Len(recent) < 2
            THEN [op |-> "rain", status |-> 404, recent |-> recent]
            ELSE [op |-> "rain", status |-> 200, recent |-> recent,
                  rain_probability |->
                      FinalProbability(HumidityScore(store, recent)
                                       + PressureScore(store, recent)
                                       + PrecipitationScore(store, recent)),
                  records_analyzed |-> Len(recent),
                  average_humidity |-> AverageHumidity(store, recent),
                  pressure_change |-> 10 * PressureChange(store, recent),
                  total_precipitation |-> 10 * TotalPrecipitation(store, recent)]
    /\ UNCHANGED <<store, removed, nextId, now, request, sess>>

RainRows ==
    {Row(t, "s1", None, hum, None, pres, rp, 0, None) :
        t \in ReadingTimes,
        hum \in {None, Some(750), Some(900), Some(950)},
        pres \in {None, Some(10120), Some(10105), Some(10100)},
        rp \in {None, Some(1)}}
    \cup {Row(t, "s2", None, Some(950), None, None, Some(2), 0, None) : t \in ReadingTimes}

RainRequests == [op : {"rain"}, source_name : Sources, hours : {1, 2}]

InitRain ==
    /\ store \in TablesUpTo(RainRows, MaxRows)
    /\ removed = {}
    /\ nextId = Cardinality(DOMAIN store) + 1
    /\ now = MaxNow + 1
    /\ request \in RainRequests
    /\ resp = NoResp
    /\ sess = NoSess

NextRain == get_rain_probability

SpecRain == InitRain /\ [][NextRain]_vars

\* ------------------- mark-processed and delete as concurrent requests
\* Each request has its own session (db: Session = Depends(get_db)); the
\* handler first reads the row (.first()) and later commits. A commit flushes
\* the pending UPDATE or DELETE and ends the transaction in one step.

\* line 310-313: the lookup of mark_as_processed
mark_as_processed_lookup(data_id) ==
    /\ sess.mark.pc = "idle"
    /\ sess' = [sess EXCEPT !.mark =
                  IF data_id \in DOMAIN store
                  THEN [pc |-> "loaded", id |-> data_id, data |-> store[data_id]]
                  ELSE [pc |-> "done", id |-> data_id, status |-> 404, rowAtCommit |-> FALSE]]
    /\ UNCHANGED <<store, removed, nextId, now, request, resp>>

\* line 315-318: data.processed = 1; db.commit(). The session flushes
\* UPDATE ... WHERE id = :id only when the loaded value was not 1 already; an
\* UPDATE that matches no row raises StaleDataError, which the handler does
\* not catch (HTTP 500). rowAtCommit (history): the row was there at the commit.
mark_as_processed_commit ==
    /\ sess.mark.pc = "loaded"
    /\ LET id == sess.mark.id
           dirty == sess.mark.data.processed # 1
           there == id \in DOMAIN store
       IN  /\ store' = IF dirty /\ there
                       THEN [store EXCEPT ![id].processed = 1, ![id].updated_at = Some(now)]
                       ELSE store
           /\ sess' = [sess EXCEPT !.mark =
                         [pc |-> "done", id |-> id,
                          status |-> IF dirty /\ ~there THEN 500 ELSE 200,
                          rowAtCommit |-> there]]
    /\ UNCHANGED <<removed, nextId, now, request, resp>>

\* line 326-329: the lookup of delete_weather_data
delete_weather_data_lookup(data_id) ==
    /\ sess.del.pc = "idle"
    /\ sess' = [sess EXCEPT !.del =
                  IF data_id \in DOMAIN store
                  THEN [pc |-> "loaded", id |-> data_id]
                  ELSE [pc |-> "done", id |-> data_id, status |-> 404]]
    /\ UNCHANGED <<store, removed, nextId, now, request, resp>>

\* line 331-334: db.delete(data); db.commit()
delete_weather_data_commit ==
    /\ sess.del.pc = "loaded"
    /\ store' = DeleteRow(store, sess.del.id)
    /\ removed' = removed \cup {sess.del.id}
    /\ sess' = [sess EXCEPT !.del = [pc |-> "done", id |-> sess.del.id, status |-> 200]]
    /\ UNCHANGED <<nextId, now, request, resp>>

InitConc ==
    /\ store \in TablesUpTo(MutRows, MaxRows)
    /\ removed = {}
    /\ nextId = Cardinality(DOMAIN store) + 1
    /\ now = 1
    /\ request = NoRequest
    /\ resp = NoResp
    /\ sess = [mark |-> [pc |-> "idle"], del |-> [pc |-> "idle"], existing |-> DOMAIN store]

NextConc ==
    \/ \E id \in Ids : mark_as_processed_lookup(id)
    \/ mark_as_processed_commit
    \/ \E id \in Ids : delete_weather_data_lookup(id)
    \/ delete_weather_data_commit

SpecConc == InitConc /\ [][NextConc]_vars

\* ====================================================================
\* Properties
\* ====================================================================
SourcesPresent(s) == {s[i].source : i \in DOMAIN s}

\* the stored row of id holds, column for column, what the payload carried
RoundTrip(data, id, s) ==
    \A i \in 1..Len(ConstructorArgs) :
        ConstructorArgs[i][2] \in DataReceivedFields =>
            s[id][ConstructorArgs[i][1]] = data[ConstructorArgs[i][2]]

\* C1: an ingest of a valid payload (stationTime and non-empty source given,
\* measurements optional) during which the store does not fail returns
\* success with a new id, adds exactly one row and leaves the others alone,
\* and the row stored under the returned id equals the payload.
C1_IngestRoundTrip ==
    [][\A data \in Payloads :
          receive_weather_data(data, "none") =>
              /\ resp'.success
              /\ resp'.id \notin DOMAIN store
              /\ DOMAIN store' = DOMAIN store \cup {resp'.id}
              /\ \A i \in DOMAIN store : store'[i] = store[i]
              /\ RoundTrip(data, resp'.id, store')]_vars

\* C2: the latest-per-source view holds exactly one row for each source
\* present in the table and nothing else, and the row of a source is the one
\* with the greatest id of that source, whatever the observation times.
C2_LatestPerSource ==
    resp.op = "latest" =>
        /\ resp.ids \subseteq DOMAIN store
        /\ Cardinality(resp.ids) = Cardinality(SourcesPresent(store))
        /\ \A src \in SourcesPresent(store) :
              Cardinality({i \in resp.ids : store[i].source = src}) = 1
        /\ \A i \in resp.ids : \A j \in DOMAIN store :
              store[j].source = store[i].source => j <= i

\* C2 witness: two sources are present and the row returned for one of them
\* was observed earlier than an older row of the same source.
C2_Witness ==
    /\ resp.op = "latest"
    /\ Cardinality(SourcesPresent(store)) = 2
    /\ \E i \in resp.ids : \E j \in DOMAIN store :
          /\ store[j].source = store[i].source
          /\ j < i
          /\ store[j].station_time > store[i].station_time

\* C8: once a delete of id is acknowledged, id is in the table in no later
\* state and a lookup of it answers 404; a new row never takes an id below
\* the sequence; a delete of an absent id answers 404 and changes nothing.
C8_DeleteIsFinal ==
    [][/\ removed' \cap DOMAIN store' = {}
       /\ (resp'.op = "getById" /\ resp'.id \in removed') => resp'.status = 404
       /\ \A id \in DOMAIN store' \ DOMAIN store : id >= nextId /\ id < nextId'
       /\ \A id \in Ids :
             delete_weather_data(id) =>
                 IF id \in DOMAIN store
                 THEN resp'.status = 200 /\ id \notin DOMAIN store'
                 ELSE resp'.status = 404 /\ store' = store]_vars

\* C8 witness: a lookup of a deleted id has answered 404.
C8_Witness ==
    /\ resp.op = "getById"
    /\ resp.id \in removed
    /\ resp.status = 404
    /\ DOMAIN store # {}

Processed(s) == [i \in DOMAIN s |-> s[i].processed]

\* C9: mark-processed of an existing id succeeds and leaves processed = 1;
\* called again right after, it succeeds again and no row's processed flag
\* differs from what the first call left; on an absent id it answers 404 and
\* changes nothing.
C9_MarkIdempotent ==
    [][\A id \in Ids :
          mark_as_processed(id) =>
              IF id \in DOMAIN store
              THEN /\ resp'.status = 200
                   /\ store'[id].processed = 1
                   /\ resp'.again => Processed(store') = Processed(store)
              ELSE resp'.status = 404 /\ store' = store]_vars

\* C9 witness: the second of two consecutive mark-processed calls on one id
\* has returned.
C9_Witness ==
    /\ resp.op = "mark"
    /\ resp.again
    /\ resp.status = 200
    /\ store[resp.id].processed = 1

\* the columns that no handler writes after the insert
Frozen(row) == [c \in DOMAIN row \ {"processed", "updated_at"} |-> row[c]]

\* C10: every stored row has processed in {0,1}; no step changes a column
\* of a stored row other than processed and updated_at; processed is 0 on a
\* new row and never goes back from 1 to 0; mark-processed of id changes no
\* other row.
C10_OnlyProcessedChanges ==
    /\ [](\A i \in DOMAIN store : store[i].processed \in {0, 1})
    /\ [][/\ \A i \in DOMAIN store' :
               IF i \in DOMAIN store
               THEN /\ store[i].processed <= store'[i].processed
                    /\ Frozen(store'[i]) = Frozen(store[i])
               ELSE store'[i].processed = 0
          /\ \A id \in Ids :
               mark_as_processed(id) =>
                   \A j \in DOMAIN store \ {id} :
                       j \in DOMAIN store' /\ store'[j] = store[j]]_vars

\* C10 witness: mark-processed has changed one row while another row stays
\* unprocessed.
C10_Witness ==
    /\ resp.op = "mark"
    /\ resp.status = 200
    /\ store[resp.id].updated_at = Some(now)
    /\ \E j \in DOMAIN store : j # resp.id /\ store[j].processed = 0

\* rows is what positions skip+1 .. skip+limit of some ordering of matching by
\* station_time descending hold.
IsPageOf(rows, matching, skip, limit) ==
    LET n == Cardinality(matching)
        rest == matching \ Range(rows)
        want == IF n <= skip THEN 0 ELSE IF n - skip < limit THEN n - skip ELSE limit
    IN  /\ Range(rows) \subseteq matching
        /\ Cardinality(Range(rows)) = Len(rows)
        /\ Len(rows) = want
        /\ \A a, b \in DOMAIN rows :
              a < b => store[rows[a]].station_time >= store[rows[b]].station_time
        /\ \E skipped \in SUBSET rest :
              /\ Cardinality(skipped) = (IF n <= skip THEN n ELSE skip)
              /\ \A i \in skipped : \A a \in DOMAIN rows :
                    store[i].station_time >= store[rows[a]].station_time
              /\ \A i \in rest \ skipped : \A a \in DOMAIN rows :
                    store[i].station_time <= store[rows[a]].station_time

\* C3 as stated: every supplied filter is applied (source equal, stationTime
\* >= startTime, stationTime <= endTime), the matching rows are ordered by
\* stationTime descending and the result is positions [skip, skip+limit) of
\* them: never longer than limit, empty when skip reaches the matching count
\* and when startTime > endTime.
C3_ListAsStated ==
    resp.op = "list" =>
        LET matching ==
                {i \in DOMAIN store :
                    /\ request.source # None => store[i].source = Val(request.source)
                    /\ request.start_date # None =>
                          store[i].station_time >= Val(request.start_date)
                    /\ request.end_date # None =>
                          store[i].station_time <= Val(request.end_date)}
        IN  IsPageOf(resp.rows, matching, request.skip, request.limit)

\* C3 amended: as C3, except that a source parameter that is the empty string
\* is treated as not supplied.
C3_ListPage ==
    resp.op = "list" =>
        LET matching ==
                {i \in DOMAIN store :
                    /\ (request.source # None /\ request.source # Some("")) =>
                          store[i].source = Val(request.source)
                    /\ request.start_date # None =>
                          store[i].station_time >= Val(request.start_date)
                    /\ request.end_date # None =>
                          store[i].station_time <= Val(request.end_date)}
        IN  /\ IsPageOf(resp.rows, matching, request.skip, request.limit)
            /\ Len(resp.rows) <= request.limit
            /\ request.skip >= Cardinality(matching) => resp.rows = <<>>
            /\ (request.start_date # None /\ request.end_date # None
                /\ Val(request.start_date) > Val(request.end_date)) => resp.rows = <<>>

\* C3 witness: source, startTime and endTime are all supplied, one matching
\* row is skipped, one is returned and one is cut off by limit, while a row of
\* another source is left out.
C3_Witness ==
    /\ resp.op = "list"
    /\ request.source = Some("s1")
    /\ request.start_date # None
    /\ request.end_date # None
    /\ request.skip = 1
    /\ request.limit = 1
    /\ Len(resp.rows) = 1
    /\ \E i, j \in DOMAIN store \ Range(resp.rows) :
          /\ i # j
          /\ store[i].source = "s1"
          /\ store[j].source = "s1"
          /\ store[i].station_time >= Val(request.start_date)
          /\ store[j].station_time >= Val(request.start_date)
          /\ store[i].station_time <= Val(request.end_date)
          /\ store[j].station_time <= Val(request.end_date)

\* the sum of the values of column col over the ids in W that have one
RECURSIVE ColumnSum(_, _)
ColumnSum(W, col) ==
    IF W = {} THEN 0
    ELSE LET i == CHOOSE j \in W : TRUE
         IN  (IF store[i][col] = None THEN 0 ELSE store[i][col][1]) + ColumnSum(W \ {i}, col)

ColumnCount(W, col) == Cardinality({i \in W : store[i][col] # None})

\* the readings of the requested source inside the requested window
RequestedWindow ==
    {i \in DOMAIN store :
        /\ store[i].source = request.source_name
        /\ store[i].station_time >= now - request.hours}

\* an average is reported over the readings that have the field and is null
\* exactly when none has it
AverageAsClaimed(reported, W, col) ==
    IF ColumnCount(W, col) = 0 THEN reported = None
    ELSE reported = Some(RoundHalfEven(10 * ColumnSum(W, col), ColumnCount(W, col)))

\* a maximum (sign = 1) or minimum (sign = -1), likewise
ExtremeAsClaimed(reported, W, col, sign) ==
    IF ColumnCount(W, col) = 0 THEN reported = None
    ELSE /\ reported # None
         /\ \E i \in W : store[i][col] # None /\ reported[1] = 10 * store[i][col][1]
         /\ \A i \in W : store[i][col] # None =>
               sign * 10 * store[i][col][1] <= sign * reported[1]

\* C4: statistics answer NotFound exactly when the window holds no reading of
\* the source; otherwise totalRecords counts the window and every aggregate
\* (temperature average/maximum/minimum, humidity average, windSpeed
\* average/maximum) is taken over the window readings that have the field,
\* being null exactly when none has it.
C4_StatsAsStated ==
    resp.op = "stats" =>
        LET W == RequestedWindow
        IN  /\ resp.status = 404 <=> W = {}
            /\ W # {} =>
                /\ resp.total_records = Cardinality(W)
                /\ AverageAsClaimed(resp.temperature.average, W, "temperature")
                /\ ExtremeAsClaimed(resp.temperature.maximum, W, "temperature", 1)
                /\ ExtremeAsClaimed(resp.temperature.minimum, W, "temperature", -1)
                /\ AverageAsClaimed(resp.humidity.average, W, "humidity")
                /\ AverageAsClaimed(resp.wind_speed.average, W, "wind_speed")
                /\ ExtremeAsClaimed(resp.wind_speed.maximum, W, "wind_speed", 1)

\* H of C5: 30 if the average of the humidities present is > 90, else 15 if it
\* is > 75, else 0; the average is 0 when there is none
ClaimedH(W) ==
    LET n == ColumnCount(W, "humidity")
        total == ColumnSum(W, "humidity")
    IN  IF n = 0 THEN 0
        ELSE IF total > 90 * 10 * n THEN 30
        ELSE IF total > 75 * 10 * n THEN 15
        ELSE 0

\* P of C5, on the ascending sequence q
ClaimedP(q) ==
    LET first == store[q[1]].presure
        last == store[q[Len(q)]].presure
    IN  IF first = None \/ last = None THEN 0
        ELSE IF last[1] - first[1] < -15 THEN 35
        ELSE IF last[1] - first[1] < -5 THEN 15
        ELSE 0

\* R of C5
ClaimedR(W) == IF ColumnSum(W, "real_precipitation") > 1 THEN 25 ELSE 0

\* C5: rain probability answers NotFound when the window holds fewer than 2
\* readings of the source; with 2 or more, taken in ascending stationTime
\* order, it reports min(100, H + P + R), a number in [0, 100].
C5_RainProbability ==
    resp.op = "rain" =>
        LET W == RequestedWindow
            q == resp.recent
        IN  /\ Range(q) = W
            /\ Len(q) = Cardinality(W)
            /\ \A a, b \in DOMAIN q :
                  a < b => store[q[a]].station_time <= store[q[b]].station_time
            /\ Cardinality(W) < 2 => resp.status = 404
            /\ Cardinality(W) >= 2 =>
                  LET total == ClaimedH(W) + ClaimedP(q) + ClaimedR(W)
                  IN  /\ resp.status = 200
                      /\ resp.rain_probability = (IF total > 100 THEN 100 ELSE total)
                      /\ resp.rain_probability \in 0..100
                      /\ resp.records_analyzed = Cardinality(W)

\* C5 witness: two readings with humidity 95 and 95, pressure 1012.0 then
\* 1010.0 and real precipitation 0.1 + 0.1 score 30 + 35 + 25 = 90.
C5_Witness ==
    /\ resp.op = "rain"
    /\ resp.status = 200
    /\ resp.rain_probability = 90
    /\ Len(resp.recent) = 2
    /\ store[resp.recent[1]].humidity = Some(950)
    /\ store[resp.recent[2]].humidity = Some(950)
    /\ store[resp.recent[1]].presure = Some(10120)
    /\ store[resp.recent[2]].presure = Some(10100)
    /\ store[resp.recent[1]].real_precipitation = Some(1)
    /\ store[resp.recent[2]].real_precipitation = Some(1)

\* C6: when a mark-processed and a delete of one existing id run concurrently
\* and both have returned, the outcome is that of a serial order: both
\* succeed, the mark having found its row at its commit, or the delete
\* succeeds and the mark answers 404.
C6_MarkDeleteSerial ==
    (/\ sess.mark.pc = "done"
     /\ sess.del.pc = "done"
     /\ sess.mark.id = sess.del.id
     /\ sess.mark.id \in sess.existing) =>
        \/ sess.mark.status = 200 /\ sess.del.status = 200 /\ sess.mark.rowAtCommit
        \/ sess.del.status = 200 /\ sess.mark.status = 404

====
